---------------------------- MODULE Spec2Model ----------------------------
(***************************************************************************)
(* Model of saf-chem/password-manager.                                     *)
(*                                                                         *)
(*   src/db_manager/database.py     DBManager, the three entity managers   *)
(*                                  and ProxyAction (variables db, manager,*)
(*                                  result; specification Spec)            *)
(*   src/database_manager/models.py SQLAlchemyManager / UnitManager over   *)
(*   src/cli.py                     the users/units tables, driven by the  *)
(*                                  click commands (variables session, cli;*)
(*                                  specification SpecCli)                 *)
(*                                                                         *)
(* Python dicts are functions with a domain of strings, table rows are     *)
(* functions from column names to values, str values are TLA+ strings and  *)
(* str + str is \o.  A call's outcome is [kind, value]: kind "return" with *)
(* the returned value ("True"/"False" for bool) or kind "raise" with the   *)
(* name of the exception class that escapes the call.                      *)
(***************************************************************************)
EXTENDS Naturals, Sequences, FiniteSets, TLC

VARIABLES db, manager, result, session, cli

vars == <<db, manager, result, session, cli>>

(***************************** bounds and inputs ***************************)
\* largest rowid a table may reach (the guards stop inserting beyond it)
MaxId == 2

\* "a" + "bc" and "ab" + "c" are the same concatenation
Usernames == {"a", "ab"}
Passwords == {"bc", "c"}
Logins == {"x", "y"}
Secrets == {"s", "t"}
CategoryNames == {"work"}

(******************************* helpers ***********************************)
\* dict.pop(k) on a dict that has k: the dict left behind
Pop(d, k) == [x \in (DOMAIN d) \ {k} |-> d[x]]

MaxOf(S) == CHOOSE x \in S : \A y \in S : y <= x

\* Python's None for "no row"
None == [none |-> TRUE]


(************************* encryption_manager ******************************)
\* enc_models.get_hash: a deterministic one-way digest, taken collision free:
\* the digest of b is the tagged text "#b", which no raw input of the model is
get_hash(b) == "#" \o b

\* AESCipher(key).encrypt(raw): the ciphertext names its key and its payload
encrypt(key, raw) == "{" \o key \o "}" \o raw

\* AESCipher(key).decrypt(enc): the payload when enc was made with this key,
\* and a DecryptionError for any other text
decrypt(key, enc) ==
    IF \E m \in Secrets : encrypt(key, m) = enc
    THEN [kind |-> "return", value |-> CHOOSE m \in Secrets : encrypt(key, m) = enc]
    ELSE [kind |-> "raise", value |-> "DecryptionError"]

(******************************* DBManager *********************************)
Managers == {"UserManager", "UnitManager", "CategoryManager"}

\* the fields of the manager's schema (db_manager.schemas), in declaration order
SchemaFields(m) ==
    CASE m = "UserManager" -> <<"username", "password">>
      [] m = "UnitManager" -> <<"login", "secret">>
      [] m = "CategoryManager" -> <<"name">>

Fields(m) == {SchemaFields(m)[i] : i \in 1..Len(SchemaFields(m))}

\* self._schema(**data) succeeds: every field of the schema is given
\* (fields the schema does not know are ignored)
SchemaValid(m, data) == Fields(m) \subseteq DOMAIN data

\* the columns of the manager's model that carry a uniqueness constraint
UniqueColumns(m) ==
    CASE m = "UserManager" -> {"username"}
      [] m = "UnitManager" -> {"login"}
      [] m = "CategoryManager" -> {"id"}

\* the table would hold two rows that agree on the unique columns
Conflict(m, rows) ==
    \E r1 \in rows : \E r2 \in rows :
        r1 # r2 /\ \A k \in UniqueColumns(m) : r1[k] = r2[k]

\* the rowid SQLite gives an INTEGER PRIMARY KEY without AUTOINCREMENT
NextId(rows) == IF rows = {} THEN 1 ELSE MaxOf({r.id : r \in rows}) + 1

\* filter_by(**filters): equality on every named column
Matches(row, filters) ==
    \A k \in DOMAIN filters : k \in DOMAIN row /\ row[k] = filters[k]

\* DBManager.get_objects
get_objects(d, m, filters) == {r \in d[m] : Matches(r, filters)}

\* DBManager.get_obj: .first(), the matching row of least rowid, or None
get_obj(d, m, filters) ==
    LET rs == get_objects(d, m, filters)
    IN  IF rs = {} THEN None
        ELSE CHOOSE r \in rs : \A q \in rs : r.id <= q.id

\* DBManager.create_obj: only pydantic's ValidationError is caught
create_obj(d, m, data) ==
    IF ~SchemaValid(m, data)
    THEN [db |-> d, kind |-> "return", value |-> "False"]
    ELSE LET new_obj == [k \in Fields(m) \cup {"id"} |->
                            IF k = "id" THEN NextId(d[m]) ELSE data[k]]
         IN  IF Conflict(m, d[m] \cup {new_obj})
             THEN [db |-> d, kind |-> "raise", value |-> "IntegrityError"]
             ELSE [db |-> [d EXCEPT ![m] = @ \cup {new_obj}],
                   kind |-> "return", value |-> "True"]

\* DBManager.update_objects: every exception is caught and answered False
update_objects(d, m, filters, data) ==
    LET updated == {IF Matches(r, filters)
                    THEN [k \in DOMAIN r |-> IF k \in DOMAIN data THEN data[k] ELSE r[k]]
                    ELSE r : r \in d[m]}
    IN  IF ~(DOMAIN data \subseteq Fields(m)) \/ Conflict(m, updated)
        THEN [db |-> d, kind |-> "return", value |-> "False"]
        ELSE [db |-> [d EXCEPT ![m] = updated], kind |-> "return", value |-> "True"]

\* DBManager.delete_objects: a bulk DELETE on the manager's own table; the
\* engine is created without PRAGMA foreign_keys, so no other table is touched
delete_objects(d, m, filters) ==
    [db |-> [d EXCEPT ![m] = {r \in @ : ~Matches(r, filters)}],
     kind |-> "return", value |-> "True"]

\* DBManager.generate_hash
generate_hash(value) == get_hash(value)

\* DBManager.__get_secret_obj: the key of the cipher
get_secret_obj(username, password) == generate_hash(username \o password)

\* DBManager.encrypt_value
encrypt_value(username, password, raw) ==
    encrypt(get_secret_obj(username, password), raw)

\* DBManager.decrypt_value
decrypt_value(username, password, enc) ==
    decrypt(get_secret_obj(username, password), enc)


(******************************* ProxyAction *******************************)
\* An outcome of a ProxyAction method: the store it leaves (db), what the call
\* returns or raises (kind, value), the caller's dict after the call (after)
\* and the number of store round trips the call made (queries).
Outcome(d, kind, value, after, queries) ==
    [db |-> d, kind |-> kind, value |-> value, after |-> after, queries |-> queries]

\* (mutant) the check made against the base class DBManager, which every
\* manager is an instance of
check_manager_base_class(m, need_use_class) == m \in Managers

\* ProxyAction.__check_manager: isinstance of the bound manager
check_manager(m, need_use_class) == m = need_use_class

\* ''.join(x for x in _data.values()): the values of the given fields, in order
RECURSIVE JoinValues(_, _)
JoinValues(fields, data) ==
    IF fields = << >> THEN ""
    ELSE data[Head(fields)] \o JoinValues(Tail(fields), data)

\* ProxyAction.check_obj
check_obj(d, m, filters) ==
    Outcome(d, "return",
            IF get_obj(d, m, filters) # None THEN "True" ELSE "False", filters, 1)

\* what create_obj answers, as an outcome of the proxy's call
Delegated(r, after) ==
    Outcome(r.db, r.kind, r.value, after,
            IF r.kind = "return" /\ r.value = "False" THEN 0 ELSE 1)

\* (mutant) the User branch without the derivation: the password is stored
\* as it was given
add_obj_user_raw(d, m, data) ==
    IF ~SchemaValid(m, data)
    THEN Outcome(d, "raise", "ValidationError", data, 0)
    ELSE Delegated(create_obj(d, m, data), data)

\* ProxyAction.add_obj, bound to the UserManager: the schema object is built
\* (a ValidationError escapes: no try surrounds it), its password is replaced
\* by the hash of username + password, and create_obj gets its dict()
add_obj_user(d, m, data) ==
    IF ~SchemaValid(m, data)
    THEN Outcome(d, "raise", "ValidationError", data, 0)
    ELSE LET _value == JoinValues(SchemaFields(m), data)
             _new_user == [username |-> data.username,
                           password |-> generate_hash(_value)]
         IN  Delegated(create_obj(d, m, _new_user), data)

\* ProxyAction.add_obj, bound to the UnitManager: the credentials are popped
\* from the caller's dict, the schema object is built, and _new_unit is then
\* rebound to the str that encrypt_value returns; a str has no dict(), so the
\* call ends in an AttributeError and nothing reaches create_obj
add_obj_unit(d, m, data) ==
    IF "username" \notin DOMAIN data
    THEN Outcome(d, "raise", "KeyError", data, 0)
    ELSE IF "password" \notin DOMAIN data
    THEN Outcome(d, "raise", "KeyError", Pop(data, "username"), 0)
    ELSE LET popped == Pop(Pop(data, "username"), "password")
         IN  IF ~SchemaValid(m, popped)
             THEN Outcome(d, "raise", "ValidationError", popped, 0)
             ELSE LET _new_unit == encrypt_value(data.username, data.password,
                                                 popped.secret)
                  IN  Outcome(d, "raise", "AttributeError", popped, 0)

\* (mutant) add_obj refusing every manager but the User and the Unit manager
add_obj_strict(d, m, data) ==
    IF check_manager(m, "UserManager") THEN add_obj_user(d, m, data)
    ELSE IF check_manager(m, "UnitManager") THEN add_obj_unit(d, m, data)
    ELSE Outcome(d, "raise", "TypeError", data, 0)

\* ProxyAction.add_obj
add_obj(d, m, data) ==
    IF check_manager(m, "UserManager") THEN add_obj_user(d, m, data)
    ELSE IF check_manager(m, "UnitManager") THEN add_obj_unit(d, m, data)
    ELSE Delegated(create_obj(d, m, data), data)

\* ProxyAction.update_obj
update_obj(d, m, filters, data) ==
    LET r == update_objects(d, m, filters, data)
    IN  Outcome(r.db, r.kind, r.value, data, 1)

\* ProxyAction.delete_obj
delete_obj(d, m, filters) ==
    LET r == delete_objects(d, m, filters)
    IN  Outcome(r.db, r.kind, r.value, filters, 1)

\* ProxyAction.check_user_password, with creds = [username, password]
check_user_password(d, m, creds) ==
    IF check_manager(m, "UserManager")
    THEN LET pass_hash == generate_hash(creds.username \o creds.password)
             _obj == get_obj(d, m, [username |-> creds.username, password |-> pass_hash])
         IN  Outcome(d, "return", IF _obj # None THEN "True" ELSE "False", creds, 1)
    ELSE Outcome(d, "raise", "TypeError", creds, 0)

\* ProxyAction.get_secret.  self.manager.get_obj(**filters) passes the
\* remaining filters as keyword arguments to get_obj(self, filters): the call
\* binds only when the one remaining key is 'filters', and is a TypeError
\* otherwise.
get_secret(d, m, filters) ==
    IF ~check_manager(m, "UnitManager")
    THEN Outcome(d, "raise", "TypeError", filters, 0)
    ELSE IF "username" \notin DOMAIN filters
    THEN Outcome(d, "raise", "KeyError", filters, 0)
    ELSE IF "password" \notin DOMAIN filters
    THEN Outcome(d, "raise", "KeyError", Pop(filters, "username"), 0)
    ELSE LET popped == Pop(Pop(filters, "username"), "password")
         IN  IF DOMAIN popped # {"filters"}
             THEN Outcome(d, "raise", "TypeError", popped, 0)
             ELSE LET _obj == get_obj(d, m, popped.filters)
                  IN  IF _obj = None
                      THEN Outcome(d, "raise", "IndexError", popped, 1)
                      ELSE LET r == decrypt_value(filters.username, filters.password,
                                                  _obj.secret)
                           IN  Outcome(d, r.kind, r.value, popped, 1)

(************************ the calls a front end makes ***********************)
Credentials == [username : Usernames, password : Passwords]

\* the text a caller of the manager's own create_obj stores as a Unit's
\* secret: a ciphertext made with a user's key
CipherTexts == {encrypt_value("a", "bc", "s")}

\* the texts a caller of update_obj gives as a Unit's new secret: a ciphertext
\* and a cleartext
UnitTexts == CipherTexts \cup {"s"}

\* data for add_obj, by bound manager (one malformed record each)
AddData(m) ==
    CASE m = "UserManager" -> Credentials \cup {[username |-> "a"]}
      [] m = "UnitManager" ->
            [username : Usernames, password : Passwords,
             login : {"x"}, secret : Secrets]
            \cup {[username |-> "a", password |-> "bc", login |-> "x"]}
      [] m = "CategoryManager" ->
            [name : CategoryNames] \cup {[title |-> "work"]}

\* data for the manager's own create_obj: records as the tables hold them
RawData(m) ==
    CASE m = "UserManager" ->
            {[username |-> c.username,
              password |-> generate_hash(c.username \o c.password)] : c \in Credentials}
      [] m = "UnitManager" -> [login : Logins, secret : CipherTexts]
      [] m = "CategoryManager" -> [name : CategoryNames]

\* filters over the columns of the bound manager's model
FiltersFor(m) ==
    CASE m = "UserManager" -> [username : Usernames]
      [] m = "UnitManager" -> [login : Logins]
      [] m = "CategoryManager" -> [name : CategoryNames]

\* data for update_obj: a User's rename with its verifier derived again, a
\* Unit's new secret, a Category's new name
UpdateData(m) ==
    CASE m = "UserManager" -> RawData(m)
      [] m = "UnitManager" -> [secret : UnitTexts]
      [] m = "CategoryManager" -> [name : CategoryNames]

\* filters for get_secret: the credentials with the Unit's login beside them,
\* with the Unit's filters under the key 'filters', and with nothing else
SecretFilters ==
    [username : Usernames, password : Passwords, login : {"x"}]
    \cup [username : Usernames, password : Passwords, filters : [login : {"x"}]]

Result(op, arg, o) ==
    [op |-> op, manager |-> manager, arg |-> arg, after |-> o.after,
     kind |-> o.kind, value |-> o.value, queries |-> o.queries]

WithinIds(d) == \A m \in Managers : \A r \in d[m] : r.id <= MaxId

\* ProxyAction(manager) on a fresh store
InitProxy ==
    /\ db = [m \in Managers |-> {}]
    /\ manager \in Managers
    /\ result = [op |-> "init", manager |-> manager, arg |-> << >>, after |-> << >>,
                 kind |-> "return", value |-> "None", queries |-> 0]

\* the manager setter
SetManager ==
    \E new_manager \in Managers \ {manager} :
        /\ manager' = new_manager
        /\ result' = [op |-> "manager", manager |-> new_manager, arg |-> << >>,
                      after |-> << >>, kind |-> "return", value |-> "None",
                      queries |-> 0]
        /\ UNCHANGED <<db, session, cli>>

Apply(op, arg, o) ==
    /\ WithinIds(o.db)
    /\ db' = o.db
    /\ result' = Result(op, arg, o)
    /\ UNCHANGED <<manager, session, cli>>

CheckObj ==
    \E filters \in FiltersFor(manager) :
        Apply("check_obj", filters, check_obj(db, manager, filters))

AddObj ==
    \E data \in AddData(manager) :
        Apply("add_obj", data, add_obj(db, manager, data))

UpdateObj ==
    \E filters \in FiltersFor(manager) : \E data \in UpdateData(manager) :
        Apply("update_obj", [filters |-> filters, data |-> data],
              update_obj(db, manager, filters, data))

DeleteObj ==
    \E filters \in FiltersFor(manager) :
        Apply("delete_obj", filters, delete_obj(db, manager, filters))

CheckUserPassword ==
    \E creds \in Credentials :
        Apply("check_user_password", creds, check_user_password(db, manager, creds))

GetSecret ==
    \E filters \in SecretFilters :
        Apply("get_secret", filters, get_secret(db, manager, filters))

\* proxy.manager.create_obj(data): the bound manager's own create
CreateObj ==
    \E data \in RawData(manager) :
        LET r == create_obj(db, manager, data)
        IN  Apply("create_obj", data, Outcome(r.db, r.kind, r.value, data, 1))

(**************** database_manager.models: SQLAlchemyManager ****************)
\* session holds the two tables of database_manager/models.py:
\*   users: rows [id, user, password]   (User: id primary key, user unique)
\*   units: rows [user_id, login, password]   (Unit: primary key (user_id, login),
\*          user_id a foreign key to users.id declared ON DELETE CASCADE)
\* The engine is created by create_engine('sqlite:///...') alone: no PRAGMA
\* foreign_keys=ON is issued on its connections, so SQLite does not enforce the
\* foreign key nor run its ON DELETE CASCADE.

\* session.query(User).filter(User.user == self.user).first()
user_row(s, user) ==
    LET rs == {r \in s.users : r.user = user}
    IN  IF rs = {} THEN None ELSE CHOOSE r \in rs : TRUE

\* SQLAlchemyManager.check_user
check_user(s, user) == user_row(s, user) # None

\* SQLAlchemyManager.check_user_password
sa_check_user_password(s, user, password) ==
    LET pass_hash == get_hash(user \o password)
    IN  \E r \in s.users : r.user = user /\ r.password = pass_hash

\* SQLAlchemyManager.add_user: the unique column makes the commit of a second
\* row with the same user fail (ON CONFLICT FAIL)
add_user(s, user, password) ==
    LET pass_hash == get_hash(user \o password)
        user_for_add == [id |-> NextId(s.users), user |-> user, password |-> pass_hash]
    IN  IF \E r \in s.users : r.user = user
        THEN [session |-> s, kind |-> "raise", value |-> "IntegrityError"]
        ELSE [session |-> [s EXCEPT !.users = @ \cup {user_for_add}],
              kind |-> "return", value |-> "None"]

\* SQLAlchemyManager.del_user: Query.delete() is one DELETE FROM users; it runs
\* no relationship cascade of the ORM and the units table is left as it is
del_user(s, user) ==
    [session |-> [s EXCEPT !.users = {r \in @ : r.user # user}],
     kind |-> "return", value |-> "None"]

\* UnitManager.add_item: the password for the login is stored as it is given
add_item(s, user, login, password_for_login) ==
    LET owner == user_row(s, user)
    IN  IF owner = None
        THEN [session |-> s, kind |-> "raise", value |-> "AttributeError"]
        ELSE IF \E u \in s.units : u.user_id = owner.id /\ u.login = login
        THEN [session |-> s, kind |-> "raise", value |-> "IntegrityError"]
        ELSE [session |-> [s EXCEPT !.units = @ \cup
                              {[user_id |-> owner.id, login |-> login,
                                password |-> password_for_login]}],
              kind |-> "return", value |-> "None"]

\* the units of the manager's user: those whose user_id is the id of its row
units_of(s, user) ==
    LET owner == user_row(s, user)
    IN  IF owner = None THEN {} ELSE {u \in s.units : u.user_id = owner.id}

\* unit_obj.add_unit(login, password_for_login, category, url, alias)
add_unit(s, user, login, password_for_login) ==
    add_item(s, user, login, password_for_login)

\* unit_obj.check_login
check_login(s, user, login) == \E u \in units_of(s, user) : u.login = login

\* unit_obj.get_password
get_password(s, user, login) ==
    (CHOOSE u \in units_of(s, user) : u.login = login).password

\* unit_obj.get_logins
get_logins(s, user) == {u.login : u \in units_of(s, user)}

\* unit_obj.delete_unit
delete_unit(s, user, login) ==
    LET mine == {u \in units_of(s, user) : u.login = login}
    IN  [s EXCEPT !.units = @ \ mine]

\* user_obj.update_user: the row renamed, its verifier derived again
update_user(s, user, newusername, password_for_newusername) ==
    [s EXCEPT !.users =
        {IF r.user = user
         THEN [r EXCEPT !.user = newusername,
                        !.password = get_hash(newusername \o password_for_newusername)]
         ELSE r : r \in @}]

(********************************* cli.py **********************************)
\* One invocation of a command: the store it leaves (session), the manager
\* methods it called, in order (calls), what check_user_password answered
\* (auth: "True", "False", or "none" when it was not called) and the logins
\* and secrets it printed or put on the clipboard (exposed).
Invocation(s, calls, auth, exposed) ==
    [session |-> s, calls |-> calls, auth |-> auth, exposed |-> exposed]

Bool(b) == IF b THEN "True" ELSE "False"

\* cli.uadd
uadd(s, user, password) ==
    IF check_user(s, user)
    THEN Invocation(s, <<"check_user">>, "none", {})
    ELSE Invocation(add_user(s, user, password).session,
                    <<"check_user", "add_user">>, "none", {})

\* cli.uupdate
uupdate(s, user, password, newusername, password_for_newusername) ==
    IF ~sa_check_user_password(s, user, password)
    THEN Invocation(s, <<"check_user_password">>, "False", {})
    ELSE IF check_user(s, newusername)
    THEN Invocation(s, <<"check_user_password", "check_user">>, "True", {})
    ELSE Invocation(update_user(s, user, newusername, password_for_newusername),
                    <<"check_user_password", "check_user", "update_user">>, "True", {})

\* cli.udelete
udelete(s, user, password) ==
    IF ~sa_check_user_password(s, user, password)
    THEN Invocation(s, <<"check_user_password">>, "False", {})
    ELSE Invocation(del_user(s, user).session,
                    <<"check_user_password", "del_user">>, "True", {})

\* cli.ushow
ushow(s) == Invocation(s, <<"all_users">>, "none", {})

\* cli.show
show(s, user, password) ==
    IF ~sa_check_user_password(s, user, password)
    THEN Invocation(s, <<"check_user_password">>, "False", {})
    ELSE Invocation(s, <<"check_user_password", "get_logins">>, "True",
                    get_logins(s, user))

\* cli.get
get(s, user, password, login) ==
    IF ~sa_check_user_password(s, user, password)
    THEN Invocation(s, <<"check_user_password">>, "False", {})
    ELSE IF check_login(s, user, login)
    THEN Invocation(s, <<"check_user_password", "check_login", "get_password">>,
                    "True", {get_password(s, user, login)})
    ELSE Invocation(s, <<"check_user_password", "check_login">>, "True", {})

\* (mutant) delete going on after a failed password check
delete_unchecked(s, user, password, login) ==
    LET auth == Bool(sa_check_user_password(s, user, password))
    IN  IF check_login(s, user, login)
        THEN Invocation(delete_unit(s, user, login),
                        <<"check_user_password", "check_login", "delete_unit">>,
                        auth, {})
        ELSE Invocation(s, <<"check_user_password", "check_login">>, auth, {})

\* cli.delete
delete(s, user, password, login) ==
    IF ~sa_check_user_password(s, user, password)
    THEN Invocation(s, <<"check_user_password">>, "False", {})
    ELSE IF check_login(s, user, login)
    THEN Invocation(delete_unit(s, user, login),
                    <<"check_user_password", "check_login", "delete_unit">>, "True", {})
    ELSE Invocation(s, <<"check_user_password", "check_login">>, "True", {})

\* cli.add
add(s, user, password, login, password_for_login) ==
    IF ~sa_check_user_password(s, user, password)
    THEN Invocation(s, <<"check_user_password">>, "False", {})
    ELSE IF check_login(s, user, login)
    THEN Invocation(s, <<"check_user_password", "check_login">>, "True", {})
    ELSE Invocation(add_unit(s, user, login, password_for_login).session,
                    <<"check_user_password", "check_login", "add_unit">>, "True", {})

\* the logins the add command is given (get and delete also ask for others)
AddLogins == {"x"}

InitCli ==
    /\ session = [users |-> {}, units |-> {}]
    /\ cli = [cmd |-> "none", user |-> "", password |-> "", calls |-> << >>,
              auth |-> "none", exposed |-> {}]

Run(cmd, user, password, inv) ==
    /\ \A r \in inv.session.users : r.id <= MaxId
    /\ session' = inv.session
    /\ cli' = [cmd |-> cmd, user |-> user, password |-> password,
               calls |-> inv.calls, auth |-> inv.auth, exposed |-> inv.exposed]
    /\ UNCHANGED <<db, manager, result>>

CliUadd ==
    \E user \in Usernames : \E password \in Passwords :
        Run("uadd", user, password, uadd(session, user, password))

CliUupdate ==
    \E user \in Usernames : \E password \in Passwords :
    \E newusername \in Usernames : \E password_for_newusername \in Passwords :
        Run("uupdate", user, password,
            uupdate(session, user, password, newusername,
                    password_for_newusername))

CliUdelete ==
    \E user \in Usernames : \E password \in Passwords :
        Run("udelete", user, password, udelete(session, user, password))

CliUshow == Run("ushow", "", "", ushow(session))

CliShow ==
    \E user \in Usernames : \E password \in Passwords :
        Run("show", user, password, show(session, user, password))

CliGet ==
    \E user \in Usernames : \E password \in Passwords : \E login \in Logins :
        Run("get", user, password, get(session, user, password, login))

CliDelete ==
    \E user \in Usernames : \E password \in Passwords : \E login \in Logins :
        Run("delete", user, password, delete(session, user, password, login))

CliAdd ==
    \E user \in Usernames : \E password \in Passwords :
    \E login \in AddLogins : \E password_for_login \in Secrets :
        Run("add", user, password, add(session, user, password, login, password_for_login))

NextCli ==
    \/ CliUadd
    \/ CliUupdate
    \/ CliUdelete
    \/ CliUshow
    \/ CliShow
    \/ CliGet
    \/ CliDelete
    \/ CliAdd

Init == InitProxy /\ InitCli

Next ==
    \/ SetManager
    \/ CheckObj
    \/ AddObj
    \/ UpdateObj
    \/ DeleteObj
    \/ CheckUserPassword
    \/ GetSecret
    \/ CreateObj

Spec == Init /\ [][Next]_vars

SpecCli == Init /\ [][NextCli]_vars


(********************************* claims **********************************)
\* the credentials of a stored User: check_user_password answers True for them
ValidCredentials(d, c) == check_user_password(d, "UserManager", c).value = "True"

\* a text that encrypt_value produces from some credentials and cleartext
IsCiphertext(t) ==
    \E c \in Credentials : \E m \in Secrets :
        t = encrypt_value(c.username, c.password, m)

\* passwords to probe check_user_password with, beyond those users are made of
ProbePasswords == Passwords \cup {"", "b", "cb", "bcc", "#abc"}

\* C1: with an existing user (u, p) and the proxy bound to the Unit manager,
\* add_obj with u, p, a login and a cleartext secret s returns True, and
\* get_secret with {username u, password p, that login} then returns s.
C1_CreateThenReveal ==
    (/\ result.op = "add_obj"
     /\ result.manager = "UnitManager"
     /\ DOMAIN result.arg = {"username", "password", "login", "secret"}
     /\ ValidCredentials(db, [username |-> result.arg.username,
                              password |-> result.arg.password]))
    => /\ result.kind = "return"
       /\ result.value = "True"
       /\ LET o == get_secret(db, "UnitManager",
                              [username |-> result.arg.username,
                               password |-> result.arg.password,
                               login |-> result.arg.login])
          IN  o.kind = "return" /\ o.value = result.arg.secret

\* C2: right after add_obj on the User manager succeeded for (username,
\* password), check_user_password(username, password) is True, it is False for
\* every other password, and the stored password is the derived verifier, not
\* the raw password.
C2_CheckPasswordAfterCreate ==
    (/\ result.op = "add_obj"
     /\ result.manager = "UserManager"
     /\ result.kind = "return"
     /\ result.value = "True")
    => LET c == result.arg
       IN  /\ check_user_password(db, manager, c).value = "True"
           /\ \A p \in ProbePasswords \ {c.password} :
                 check_user_password(db, manager,
                                     [username |-> c.username, password |-> p]).value
                    = "False"
           /\ \E r \in db["UserManager"] : r.username = c.username
           /\ \A r \in db["UserManager"] :
                 r.username = c.username
                    => /\ r.password = get_hash(c.username \o c.password)
                       /\ r.password # c.password

\* C2's case: a second user has just been created beside an existing one
C2_Witness ==
    /\ result.op = "add_obj"
    /\ result.manager = "UserManager"
    /\ result.kind = "return"
    /\ result.value = "True"
    /\ Cardinality(db["UserManager"]) = 2

\* C3: the key of a user's cipher is obtainable only from the user's own
\* (username, password): no stored User row carries it, and no other
\* credential pair derives it.
C3_KeyOnlyFromCredentials ==
    \A c \in Credentials :
        ValidCredentials(db, c)
        => /\ \A r \in db["UserManager"] :
                 r.password # get_secret_obj(c.username, c.password)
           /\ \A c2 \in Credentials \ {c} :
                 get_secret_obj(c2.username, c2.password)
                    # get_secret_obj(c.username, c.password)

\* C4: every stored Unit's owner is a stored User (no Unit outlives its owner).
C4_NoOrphanUnits ==
    \A u \in session.units : \E r \in session.users : r.id = u.user_id

\* C5: the secret of every Unit that add_obj or update_obj wrote is ciphertext,
\* never the cleartext the caller supplied.
C5_SecretsAreCiphertext ==
    /\ (/\ result.op = "update_obj"
        /\ result.manager = "UnitManager"
        /\ result.value = "True")
       => \A r \in get_objects(db, "UnitManager", result.arg.filters) :
             IsCiphertext(r.secret)
    /\ (/\ result.op = "add_obj"
        /\ result.manager = "UnitManager"
        /\ result.kind = "return"
        /\ result.value = "True")
       => \A r \in get_objects(db, "UnitManager", [login |-> result.after.login]) :
             IsCiphertext(r.secret)

\* C6: add_obj for a User whose username is already stored, or for a Unit
\* whose login is already stored, returns False instead of raising, and leaves
\* the store as it was.
C6_DuplicateRejected ==
    [][(/\ result'.op = "add_obj"
        /\ \/ /\ result'.manager = "UserManager"
              /\ result'.arg \in Credentials
              /\ \E r \in db["UserManager"] : r.username = result'.arg.username
           \/ /\ result'.manager = "UnitManager"
              /\ DOMAIN result'.arg = {"username", "password", "login", "secret"}
              /\ \E r \in db["UnitManager"] : r.login = result'.arg.login)
       => /\ result'.kind = "return"
          /\ result'.value = "False"
          /\ db' = db]_vars

\* C7: get_secret on the Unit manager with correct credentials and filters
\* that match no Unit raises IndexError (and not TypeError).
C7_RevealNoMatchIsNotFound ==
    (/\ result.op = "get_secret"
     /\ result.manager = "UnitManager"
     /\ DOMAIN result.arg = {"username", "password", "login"}
     /\ ValidCredentials(db, [username |-> result.arg.username,
                              password |-> result.arg.password])
     /\ get_objects(db, "UnitManager", [login |-> result.arg.login]) = {})
    => result.kind = "raise" /\ result.value = "IndexError"

\* C8: add_obj on a proxy bound to a manager other than the User or Unit
\* manager raises TypeError and creates no record.
C8_OtherManagerTypeMismatch ==
    [][(result'.op = "add_obj" /\ result'.manager = "CategoryManager")
       => /\ result'.kind = "raise"
          /\ result'.value = "TypeError"
          /\ db' = db]_vars

\* C8 as amended: add_obj on a proxy bound to the Category manager delegates to
\* create_obj: it never raises TypeError; well-formed data returns True and adds
\* exactly one Category row holding the given name; malformed data returns
\* False and leaves the store as it was.
C8_CategoryCreateDelegates ==
    [][(result'.op = "add_obj" /\ result'.manager = "CategoryManager")
       => IF "name" \in DOMAIN result'.arg
          THEN /\ result'.kind = "return"
               /\ result'.value = "True"
               /\ \E r \in db'["CategoryManager"] \ db["CategoryManager"] :
                     /\ r.name = result'.arg.name
                     /\ db' = [db EXCEPT !["CategoryManager"] = @ \cup {r}]
          ELSE /\ result'.kind = "return"
               /\ result'.value = "False"
               /\ db' = db]_vars

\* C8's case: add_obj on the Category manager has just stored a second Category
C8_Witness ==
    /\ result.op = "add_obj"
    /\ result.manager = "CategoryManager"
    /\ result.value = "True"
    /\ Cardinality(db["CategoryManager"]) = 2

\* C9: check_user_password on a proxy not bound to the User manager, and
\* get_secret on a proxy not bound to the Unit manager, raise TypeError before
\* any store query and leave the store, the binding and the caller's filters
\* as they were.
C9_WrongBindingTypeError ==
    [][(\/ result'.op = "check_user_password" /\ result'.manager # "UserManager"
        \/ result'.op = "get_secret" /\ result'.manager # "UnitManager")
       => /\ result'.kind = "raise"
          /\ result'.value = "TypeError"
          /\ result'.queries = 0
          /\ result'.after = result'.arg
          /\ db' = db
          /\ manager' = manager]_vars

\* C9's case: get_secret was called on a proxy bound to the User manager, with
\* credentials of a stored user
C9_Witness ==
    /\ result.op = "get_secret"
    /\ result.manager = "UserManager"
    /\ result.kind = "raise"
    /\ ValidCredentials(db, [username |-> result.arg.username,
                             password |-> result.arg.password])

\* the commands that act on an existing account
AccountCommands == {"uupdate", "udelete", "show", "get", "delete", "add"}

\* C10: every command that acts on an existing account calls
\* check_user_password first, and unless it answered True the command calls
\* nothing else, leaves the store unchanged and exposes no login or secret.
C10_PasswordCheckedFirst ==
    [][(cli'.cmd \in AccountCommands)
       => /\ cli'.calls # << >>
          /\ Head(cli'.calls) = "check_user_password"
          /\ cli'.auth \in {"True", "False"}
          /\ cli'.auth = Bool(sa_check_user_password(session, cli'.user,
                                                     cli'.password))
          /\ cli'.auth # "True"
                => /\ Len(cli'.calls) = 1
                   /\ session' = session
                   /\ cli'.exposed = {}]_vars

\* C10's case: a command was refused while the account it names holds a unit
C10_Witness ==
    /\ cli.cmd \in {"get", "delete", "show"}
    /\ cli.auth = "False"
    /\ units_of(session, cli.user) # {}

=============================================================================
